---------------------------- MODULE Spec2Model ----------------------------
(***************************************************************************)
(* A model of mindful_client.MindfulClient: the streaming response decoder *)
(* (__stream_response), the conversation turn (get_completions), history   *)
(* persistence (__save_history / load_history) and the interactive loop    *)
(* (start_chat).                                                           *)
(*                                                                         *)
(* Text is a sequence of one-character strings.  The byte stream of a      *)
(* response is a sequence of bytes: an ASCII byte is written as its        *)
(* character, and the two bytes of the UTF-8 encoding of U+00E9 are        *)
(* written "C3" and "A9"; the decoded code point is written "U+E9".        *)
(***************************************************************************)
EXTENDS Integers, Sequences, FiniteSets, TLC

(***************************************************************************)
(* Bounds of the model.                                                    *)
(***************************************************************************)
\* Lines of one response stream.
MaxLines == 2

\* Turns (calls of get_completions) of one run.
MaxTurns == 2

\* Python's None.
None == [none |-> TRUE]

(***************************************************************************)
(* Text helpers (Python str operations used by the decoder).               *)
(***************************************************************************)
RECURSIVE Flatten(_)
\* "".join(seqs)
Flatten(seqs) ==
    IF seqs = <<>> THEN <<>> ELSE Head(seqs) \o Flatten(Tail(seqs))

Whitespace == {" ", "\n", "\r", "\t"}

\* bool(s.strip()): some character of s is not whitespace.
StripTruthy(s) == \E i \in 1..Len(s) : s[i] \notin Whitespace

\* s.startswith(p)
StartsWith(s, p) == Len(s) >= Len(p) /\ SubSeq(s, 1, Len(p)) = p

\* s[n:]
Drop(s, n) == IF n >= Len(s) THEN <<>> ELSE SubSeq(s, n + 1, Len(s))

RECURSIVE LStripQuote(_)
LStripQuote(s) ==
    IF s # <<>> /\ Head(s) = "\"" THEN LStripQuote(Tail(s)) ELSE s

RECURSIVE RStripQuote(_)
RStripQuote(s) ==
    IF s # <<>> /\ s[Len(s)] = "\"" THEN RStripQuote(SubSeq(s, 1, Len(s) - 1))
    ELSE s

\* s.strip('"'): every leading and every trailing double quote is removed.
StripQuotes(s) == RStripQuote(LStripQuote(s))

RECURSIVE SplitLines(_)
\* s.split('\n'): one fragment more than there are line breaks; the last
\* fragment is the unterminated rest (empty when s ends in a line break).
SplitLines(s) ==
    IF \A i \in 1..Len(s) : s[i] # "\n" THEN <<s>>
    ELSE LET i == CHOOSE k \in 1..Len(s) :
                      s[k] = "\n" /\ \A j \in 1..(k - 1) : s[j] # "\n"
         IN  <<SubSeq(s, 1, i - 1)>> \o SplitLines(SubSeq(s, i + 1, Len(s)))

(***************************************************************************)
(* UTF-8: the server's text as bytes, and bytes.decode('utf-8') of a chunk.*)
(***************************************************************************)
RECURSIVE Utf8Encode(_)
Utf8Encode(s) ==
    IF s = <<>> THEN <<>>
    ELSE IF Head(s) = "U+E9" THEN <<"C3", "A9">> \o Utf8Encode(Tail(s))
    ELSE <<Head(s)>> \o Utf8Encode(Tail(s))

NotContinuation(x) == x # "A9"

\* chunk.decode('utf-8').  Strict decoding: a lead byte without its
\* continuation byte, or a continuation byte without its lead byte, raises
\* UnicodeDecodeError.
Utf8Decode(b) ==
    IF \E i \in 1..Len(b) :
          \/ b[i] = "C3" /\ (i = Len(b) \/ b[i + 1] # "A9")
          \/ b[i] = "A9" /\ (i = 1 \/ b[i - 1] # "C3")
    THEN [exc |-> TRUE, text |-> <<>>]
    ELSE LET leads == SelectSeq(b, NotContinuation) IN
         [exc |-> FALSE,
          text |-> [i \in 1..Len(leads) |->
                       IF leads[i] = "C3" THEN "U+E9" ELSE leads[i]]]

(***************************************************************************)
(* json.loads, on the subset of JSON the modelled streams carry:           *)
(*   {"<key>": "<string>"}   an object of one string member                *)
(*   <digits>                a number                                      *)
(* with the string escapes \" \\ and \n.  Everything else the model feeds  *)
(* it (a truncated object) is a JSONDecodeError, as it is for json.loads.  *)
(***************************************************************************)
JsonError == [err |-> TRUE]

RECURSIVE ParseString(_, _, _)
\* s[i] is the first character after the opening quote.  Returns the decoded
\* string and the index after the closing quote.
ParseString(s, i, acc) ==
    IF i > Len(s) THEN [err |-> TRUE]
    ELSE IF s[i] = "\"" THEN [err |-> FALSE, val |-> acc, next |-> i + 1]
    ELSE IF s[i] = "\\"
         THEN IF i + 1 > Len(s) THEN [err |-> TRUE]
              ELSE IF s[i + 1] = "\"" THEN ParseString(s, i + 2, Append(acc, "\""))
              ELSE IF s[i + 1] = "\\" THEN ParseString(s, i + 2, Append(acc, "\\"))
              ELSE IF s[i + 1] = "n" THEN ParseString(s, i + 2, Append(acc, "\n"))
              ELSE [err |-> TRUE]
    ELSE IF s[i] \in {"\n", "\r", "\t"} THEN [err |-> TRUE]
    ELSE ParseString(s, i + 1, Append(acc, s[i]))

RECURSIVE SkipWs(_, _)
SkipWs(s, i) ==
    IF i <= Len(s) /\ s[i] \in Whitespace THEN SkipWs(s, i + 1) ELSE i

Digits == {"0", "1", "2", "3", "4", "5", "6", "7", "8", "9"}

ParseObject(s, i) ==
    \* s[i] = "{"
    LET k0 == SkipWs(s, i + 1) IN
    IF k0 > Len(s) \/ s[k0] # "\"" THEN JsonError
    ELSE LET key == ParseString(s, k0 + 1, <<>>) IN
    IF key.err THEN JsonError
    ELSE LET c == SkipWs(s, key.next) IN
    IF c > Len(s) \/ s[c] # ":" THEN JsonError
    ELSE LET v0 == SkipWs(s, c + 1) IN
    IF v0 > Len(s) \/ s[v0] # "\"" THEN JsonError
    ELSE LET val == ParseString(s, v0 + 1, <<>>) IN
    IF val.err THEN JsonError
    ELSE LET e == SkipWs(s, val.next) IN
    IF e > Len(s) \/ s[e] # "}" THEN JsonError
    ELSE IF SkipWs(s, e + 1) <= Len(s) THEN JsonError
    ELSE [err |-> FALSE, type |-> "object", key |-> key.val, val |-> val.val]

JsonLoads(s) ==
    LET i == SkipWs(s, 1) IN
    IF i > Len(s) THEN JsonError
    ELSE IF s[i] = "{" THEN ParseObject(s, i)
    ELSE IF s[i] \in Digits
         THEN IF \A j \in i..Len(s) : s[j] \in Digits
              THEN [err |-> FALSE, type |-> "number"]
              ELSE JsonError
    ELSE JsonError


(***************************************************************************)
(* Python values: a str s is Str(s); None is None.                         *)
(***************************************************************************)
Str(s) == [str |-> s]

\* A Python list (a list object's value): the sequence of its items.
List(items) == [list |-> items]

\* bool(v) of a value that is None, a str or a list.
Truthy(v) ==
    /\ v # None
    /\ "str" \in DOMAIN v => v.str # ""
    /\ "list" \in DOMAIN v => v.list # <<>>

(***************************************************************************)
(* __stream_response.                                                      *)
(***************************************************************************)
DataPrefix == <<"d", "a", "t", "a", ":", " ">>

ContentKey == <<"c", "o", "n", "t", "e", "n", "t">>

\* One line (or the final buffer): the body of the `if line.strip() and
\* line.startswith('data: ')` statement.  exc: an exception other than
\* JSONDecodeError left the inner try.
HandleLine(line, text) ==
    IF StripTruthy(line) /\ StartsWith(line, DataPrefix)
    THEN LET data == JsonLoads(Drop(line, Len(DataPrefix))) IN
         IF data.err
         THEN \* except json.JSONDecodeError: continue
              [exc |-> FALSE, text |-> text]
         ELSE IF data.type = "object"
              THEN IF data.key = ContentKey
                   THEN [exc |-> FALSE, text |-> text \o data.val]
                   ELSE [exc |-> FALSE, text |-> text]
         ELSE \* 'content' in <int>: TypeError
              [exc |-> TRUE, text |-> text]
    ELSE [exc |-> FALSE, text |-> text]

RECURSIVE ProcessLines(_, _)
\* for line in lines[:-1]
ProcessLines(lines, text) ==
    IF lines = <<>> THEN [exc |-> FALSE, text |-> text]
    ELSE LET r == HandleLine(Head(lines), text) IN
         IF r.exc THEN r ELSE ProcessLines(Tail(lines), r.text)

\* One iteration of `for chunk in response.iter_content(...)`.
IterChunk(st, chunk) ==
    IF chunk = <<>> THEN st
    ELSE LET dec == Utf8Decode(chunk) IN
         IF dec.exc THEN [st EXCEPT !.exc = TRUE]
         ELSE LET lines == SplitLines(st.buffer \o dec.text)
                  r == ProcessLines(SubSeq(lines, 1, Len(lines) - 1),
                                    st.stream_text)
              IN  [buffer |-> IF r.exc THEN st.buffer ELSE lines[Len(lines)],
                   stream_text |-> r.text,
                   exc |-> r.exc]

\* After the loop: the remaining buffer, then the return value.
StreamFinish(st) ==
    LET r == HandleLine(st.buffer, st.stream_text) IN
    IF r.exc THEN [stream_text |-> r.text, result |-> None]
    ELSE [stream_text |-> r.text, result |-> Str(StripQuotes(r.text))]

StreamStart == [buffer |-> <<>>, stream_text |-> <<>>, exc |-> FALSE]

RECURSIVE StreamResponse(_)
\* __stream_response on a whole response given as its chunks, first to last
\* (here the chunks are held last-to-first: StreamResponse(<<>>) is the
\* state before the first chunk).
StreamResponse(chunks) ==
    IF chunks = <<>> THEN StreamStart
    ELSE LET st == StreamResponse(SubSeq(chunks, 1, Len(chunks) - 1)) IN
         IF st.exc THEN st ELSE IterChunk(st, chunks[Len(chunks)])

(***************************************************************************)
(* The response bodies of the model: lines of the server's event stream.   *)
(***************************************************************************)
\* The content fragments s_i a line may carry.
Contents == {<<"a">>, <<"\"", "\"", "U+E9", "\"">>}

RECURSIVE JsonEscape(_)
JsonEscape(s) ==
    IF s = <<>> THEN <<>>
    ELSE (CASE Head(s) = "\"" -> <<"\\", "\"">>
            [] Head(s) = "\\" -> <<"\\", "\\">>
            [] Head(s) = "\n" -> <<"\\", "n">>
            [] OTHER -> <<Head(s)>>) \o JsonEscape(Tail(s))

JsonObject(key, s) ==
    <<"{", "\"">> \o key \o <<"\"", ":", " ", "\"">> \o JsonEscape(s)
        \o <<"\"", "}">>

Lines ==
    [kind : {"content"}, s : Contents]
    \cup {[kind |-> "other", s |-> <<"a">>],   \* data: {"id": "a"}
          [kind |-> "bad", s |-> <<"a">>],     \* data: {"content": "a
          [kind |-> "blank", s |-> <<>>],      \* an empty line
          [kind |-> "scalar", s |-> <<>>]}     \* data: 1

LineText(l) ==
    CASE l.kind = "content" -> DataPrefix \o JsonObject(ContentKey, l.s)
      [] l.kind = "other" -> DataPrefix \o JsonObject(<<"i", "d">>, l.s)
      [] l.kind = "bad" ->
            DataPrefix \o <<"{", "\"">> \o ContentKey
                \o <<"\"", ":", " ", "\"">> \o JsonEscape(l.s)
      [] l.kind = "blank" -> <<>>
      [] l.kind = "scalar" -> DataPrefix \o <<"1">>

RECURSIVE BodyText(_, _)
\* The body's text: every line ends in a line break, the last one only if
\* the body is terminated.
BodyText(ls, terminated) ==
    IF ls = <<>> THEN <<>>
    ELSE IF Len(ls) = 1
         THEN LineText(ls[1]) \o (IF terminated THEN <<"\n">> ELSE <<>>)
    ELSE LineText(ls[1]) \o <<"\n">> \o BodyText(Tail(ls), terminated)

Bodies == UNION {[1..n -> Lines] : n \in 0..MaxLines}

RECURSIVE ConcatContents(_)
\* s_1 s_2 ... s_n of the body's content lines, in order.
ConcatContents(ls) ==
    IF ls = <<>> THEN <<>>
    ELSE (IF ls[1].kind = "content" THEN ls[1].s ELSE <<>>)
             \o ConcatContents(Tail(ls))

(***************************************************************************)
(* Messages, agents and the preset.                                        *)
(***************************************************************************)
\* self.__model: the provider's identifier of the configured model.
Model == "omniverse"

\* A task id: __get_task_id draws a new one at every call.
TaskId(n) == [task |-> n]

\* One message of a history.
Msg(id, role, content) ==
    [id |-> id, role |-> role, content |-> content, model |-> Model]

\* The agent templates of the preset: `default` is a fixed text, `custom`
\* holds the placeholder {system_prompt}.
AgentTemplates == {"default", "custom"}

\* template.format(system_prompt=instruction): texts rendered from different
\* templates or different instructions are different texts.
Format(template, instruction) ==
    Str([template |-> template, system_prompt |-> instruction.str])

\* __get_agent: the system prompt of an agent; a KeyError for an agent the
\* preset does not hold.
GetAgent(agent, instruction) ==
    IF agent \notin AgentTemplates THEN [exc |-> TRUE, prompt |-> None]
    ELSE IF agent = "custom" /\ Truthy(instruction)
         THEN [exc |-> FALSE, prompt |-> Format(agent, instruction)]
    ELSE [exc |-> FALSE, prompt |-> Str([template |-> agent])]

\* [msg for msg in msgs if msg['role'] in ('user', 'assistant')]
IsTurn(m) == m.role \in {"user", "assistant"}

Transfer(msgs) == SelectSeq(msgs, IsTurn)

\* A session start that always draws a fresh task id.
StartOrContinueFreshId(history_in, agent0, instruction, fresh) ==
    LET agent == IF Truthy(instruction) THEN "custom" ELSE agent0
        ga == GetAgent(agent, IF agent = "custom" THEN instruction ELSE None)
        agent_changed == Truthy(history_in) /\ history_in.list[1].content # ga.prompt
    IN  IF ga.exc THEN [exc |-> TRUE, history |-> history_in, reused |-> TRUE]
        ELSE IF agent_changed \/ ~Truthy(history_in)
        THEN [exc |-> FALSE, reused |-> FALSE,
              history |-> List(<<Msg(fresh, "system", ga.prompt)>>
                  \o (IF Truthy(history_in) /\ Len(history_in.list) > 1
                      THEN Transfer(Tail(history_in.list)) ELSE <<>>))]
        ELSE [exc |-> FALSE, reused |-> TRUE, history |-> history_in]

\* A session start that carries the old system message over as well.
StartOrContinueKeepSystem(history_in, agent0, instruction, fresh) ==
    LET agent == IF Truthy(instruction) THEN "custom" ELSE agent0
        ga == GetAgent(agent, IF agent = "custom" THEN instruction ELSE None)
        agent_changed == Truthy(history_in) /\ history_in.list[1].content # ga.prompt
    IN  IF ga.exc THEN [exc |-> TRUE, history |-> history_in, reused |-> TRUE]
        ELSE IF agent_changed \/ ~Truthy(history_in)
        THEN [exc |-> FALSE, reused |-> FALSE,
              history |-> List(<<Msg(IF ~Truthy(history_in) THEN fresh
                                     ELSE history_in.list[1].id,
                                     "system", ga.prompt)>>
                  \o (IF Truthy(history_in) THEN history_in.list ELSE <<>>))]
        ELSE [exc |-> FALSE, reused |-> TRUE, history |-> history_in]

\* A session start that rebuilds the history on every call.
StartOrContinueRebuild(history_in, agent0, instruction, fresh) ==
    LET agent == IF Truthy(instruction) THEN "custom" ELSE agent0
        ga == GetAgent(agent, IF agent = "custom" THEN instruction ELSE None)
    IN  IF ga.exc THEN [exc |-> TRUE, history |-> history_in, reused |-> TRUE]
        ELSE [exc |-> FALSE, reused |-> FALSE,
              history |-> List(<<Msg(IF ~Truthy(history_in) THEN fresh
                                     ELSE history_in.list[1].id,
                                     "system", ga.prompt)>>
                  \o (IF Truthy(history_in) /\ Len(history_in.list) > 1
                      THEN Transfer(Tail(history_in.list)) ELSE <<>>))]

\* get_completions, lines 429-465: the history the turn starts from.
\*   exc:    __get_agent raised (the except clause returns the history given)
\*   reused: the list object given is the one the turn goes on with
StartOrContinue(history_in, agent0, instruction, fresh) ==
    LET agent == IF Truthy(instruction) THEN "custom" ELSE agent0
        ga == GetAgent(agent, IF agent = "custom" THEN instruction ELSE None)
        agent_changed == Truthy(history_in) /\ history_in.list[1].content # ga.prompt
    IN  IF ga.exc THEN [exc |-> TRUE, history |-> history_in, reused |-> TRUE]
        ELSE IF agent_changed \/ ~Truthy(history_in)
        THEN [exc |-> FALSE, reused |-> FALSE,
              history |-> List(<<Msg(IF ~Truthy(history_in) THEN fresh
                                     ELSE history_in.list[1].id,
                                     "system", ga.prompt)>>
                  \o (IF Truthy(history_in) /\ Len(history_in.list) > 1
                      THEN Transfer(Tail(history_in.list)) ELSE <<>>))]
        ELSE [exc |-> FALSE, reused |-> TRUE, history |-> history_in]

(***************************************************************************)
(* The user message: lines 467-496.                                        *)
(***************************************************************************)
\* Image files that cannot be read or whose upload the server refuses.
Unreadable == {"bad.png"}

\* __upload_image: the URL the upload endpoint returns for the file, or the
\* exception it re-raises.
UploadImage(image_path) ==
    IF image_path \in Unreadable THEN [exc |-> TRUE, url |-> None]
    ELSE [exc |-> FALSE, url |-> Str([uploaded |-> image_path])]

ImagePart(url) == [type |-> "image_url", file_url |-> [url |-> url]]

TextPart(prompt) == [type |-> "text", text |-> prompt.str]

\* An upload loop that goes on with the later paths after a failure.
UploadAllKeepsGoing(image_paths, content, tried) ==
    [exc |-> \E i \in 1..Len(image_paths) : UploadImage(image_paths[i]).exc,
     content |-> content \o [i \in 1..Len(image_paths) |->
                                ImagePart(UploadImage(image_paths[i]).url)],
     tried |-> tried \o image_paths]

RECURSIVE UploadAll(_, _, _)
\* for img_path in image_paths: upload, then append the image part.  The
\* loop ends at the first upload that raises.  `tried` lists the paths
\* __upload_image was called with.
UploadAll(image_paths, content, tried) ==
    IF image_paths = <<>>
    THEN [exc |-> FALSE, content |-> content, tried |-> tried]
    ELSE LET up == UploadImage(Head(image_paths)) IN
         IF up.exc
         THEN [exc |-> TRUE, content |-> content,
               tried |-> Append(tried, Head(image_paths))]
         ELSE UploadAll(Tail(image_paths),
                        Append(content, ImagePart(up.url)),
                        Append(tried, Head(image_paths)))

\* A message content with the text part after the image parts.
MessageContentTextLast(prompt, image_path) ==
    LET text == IF Truthy(prompt) THEN <<TextPart(prompt)>> ELSE <<>>
        image_paths == IF ~Truthy(image_path) THEN <<>>
                       ELSE IF "str" \in DOMAIN image_path
                            THEN <<image_path.str>>
                       ELSE image_path.list
        up == UploadAll(image_paths, <<>>, <<>>)
    IN  [up EXCEPT !.content = up.content \o text]

\* message_content: the text part if the prompt is not empty, then one image
\* part per path.  image_path is None, a str or a list of str.
MessageContent(prompt, image_path) ==
    LET text == IF Truthy(prompt) THEN <<TextPart(prompt)>> ELSE <<>>
        image_paths == IF ~Truthy(image_path) THEN <<>>
                       ELSE IF "str" \in DOMAIN image_path
                            THEN <<image_path.str>>
                       ELSE image_path.list
    IN  UploadAll(image_paths, text, <<>>)

(***************************************************************************)
(* The history file: json.dump / json.load, __save_history, load_history.  *)
(***************************************************************************)
NoFile == [nofile |-> TRUE]

\* A file whose text is not JSON.
Corrupt == [corrupt |-> TRUE]

\* The JSON text of a Python value: null, a string, or an array of objects.
DumpContent(content) ==
    IF content = None THEN [null |-> TRUE]
    ELSE IF "str" \in DOMAIN content THEN [string |-> content.str]
    ELSE [array |-> content.list]

LoadContent(json) ==
    IF "null" \in DOMAIN json THEN None
    ELSE IF "string" \in DOMAIN json THEN Str(json.string)
    ELSE List(json.array)

\* json.dump(history, f, indent=2): the file written.
JsonDump(msgs) ==
    [json |-> [i \in 1..Len(msgs) |->
                  [id |-> msgs[i].id, role |-> msgs[i].role,
                   content |-> DumpContent(msgs[i].content),
                   model |-> msgs[i].model]]]

\* json.load(f): the list read, or json.JSONDecodeError.
JsonLoad(file) ==
    IF file = Corrupt THEN [exc |-> TRUE, msgs |-> <<>>]
    ELSE [exc |-> FALSE,
          msgs |-> [i \in 1..Len(file.json) |->
                       [id |-> file.json[i].id, role |-> file.json[i].role,
                        content |-> LoadContent(file.json[i].content),
                        model |-> file.json[i].model]]]

\* A save that appends the whole in-memory history to the file's.
SaveHistoryDuplicate(msgs, file, save_to, save_as, convert_ok) ==
    IF save_to = None THEN [file |-> file, exc |-> FALSE]
    ELSE LET existing == IF file = NoFile THEN [exc |-> TRUE, msgs |-> <<>>]
                         ELSE JsonLoad(file)
         IN  [file |-> JsonDump(IF existing.exc THEN msgs
                                ELSE existing.msgs \o msgs),
              exc |-> (save_as # Str("json") /\ ~convert_ok)]

\* A save that gives up on a file it cannot decode.
SaveHistoryNoRecover(msgs, file, save_to, save_as, convert_ok) ==
    IF save_to = None THEN [file |-> file, exc |-> FALSE]
    ELSE IF file = Corrupt THEN [file |-> file, exc |-> TRUE]
    ELSE LET existing == IF file = NoFile THEN [exc |-> TRUE, msgs |-> <<>>]
                         ELSE JsonLoad(file)
             new_messages == Drop(msgs, Len(existing.msgs))
         IN  [file |-> JsonDump(IF ~existing.exc /\ new_messages # <<>>
                                THEN existing.msgs \o new_messages
                                ELSE msgs),
              exc |-> (save_as # Str("json") /\ ~convert_ok)]

\* A save that puts the old file back when the conversion fails.
SaveHistoryRollback(msgs, file, save_to, save_as, convert_ok) ==
    IF save_to = None THEN [file |-> file, exc |-> FALSE]
    ELSE IF save_as # Str("json") /\ ~convert_ok
    THEN [file |-> file, exc |-> TRUE]
    ELSE LET existing == IF file = NoFile THEN [exc |-> TRUE, msgs |-> <<>>]
                         ELSE JsonLoad(file)
             new_messages == Drop(msgs, Len(existing.msgs))
         IN  [file |-> JsonDump(IF ~existing.exc /\ new_messages # <<>>
                                THEN existing.msgs \o new_messages
                                ELSE msgs),
              exc |-> FALSE]

\* A save that leaves alone a file with nothing to append to.
SaveHistoryKeepFile(msgs, file, save_to, save_as, convert_ok) ==
    IF save_to = None THEN [file |-> file, exc |-> FALSE]
    ELSE LET existing == IF file = NoFile THEN [exc |-> TRUE, msgs |-> <<>>]
                         ELSE JsonLoad(file)
             new_messages == Drop(msgs, Len(existing.msgs))
         IN  [file |-> JsonDump(IF existing.exc THEN msgs
                                ELSE existing.msgs \o new_messages),
              exc |-> (save_as # Str("json") /\ ~convert_ok)]

\* __save_history(history) on the file at the path of the history's task id.
\*   convert_ok: whether __convert_chat succeeds (it is called only for
\*   txt and md).  exc: the exception re-raised after the JSON was written.
SaveHistory(msgs, file, save_to, save_as, convert_ok) ==
    IF save_to = None THEN [file |-> file, exc |-> FALSE]
    ELSE LET existing == IF file = NoFile THEN [exc |-> TRUE, msgs |-> <<>>]
                         ELSE JsonLoad(file)
             existing_len == Len(existing.msgs)
             new_messages == Drop(msgs, existing_len)
             written == IF ~existing.exc /\ new_messages # <<>>
                        THEN existing.msgs \o new_messages
                        ELSE msgs
         IN  [file |-> JsonDump(written),
              exc |-> (save_as # Str("json") /\ ~convert_ok)]

\* load_history(file_path): the list read; an exception for a missing or
\* undecodable file, an empty list or a first message without its fields.
LoadHistory(file) ==
    IF file = NoFile \/ file = Corrupt THEN [exc |-> TRUE, history |-> None]
    ELSE LET loaded == JsonLoad(file) IN
         IF loaded.msgs = <<>> THEN [exc |-> TRUE, history |-> None]
         ELSE [exc |-> FALSE, history |-> List(loaded.msgs)]

(***************************************************************************)
(* The state.                                                              *)
(***************************************************************************)
VARIABLES
    \* the client's configuration and the program that uses it
    caller,               \* "library" | "start_chat"
    save_to,              \* None (nothing is saved) or the directory
    save_as,              \* None, or Str of "json" | "md"
    \* the caller's variables (start_chat's locals)
    user_input,           \* start_chat's last line read (None: none yet)
    history,              \* None or List(messages): the history held
    task_id,              \* start_chat's task_id
    current_agent,
    current_instruction,
    \* a call of get_completions
    pc,                   \* "idle" | "pending" | "interrupted"
    cur,                  \* its local `history` while the request is pending
    aliased,              \* cur is the list object the caller holds
    call,                 \* the arguments of the last call, and its start
    uploads,              \* the paths __upload_image was called with
    ret,                  \* the last (response, history) returned
    outcome,              \* how the last call ended
    \* the environment
    disk,                 \* task number -> the history file of that task
    next_task,            \* the number of the next task id drawn
    turns                 \* calls made so far

mvars == <<caller, save_to, save_as, user_input, history, task_id,
           current_agent, current_instruction, pc, cur, aliased, call,
           uploads, ret, outcome, disk, next_task, turns>>

(***************************************************************************)
(* The decoder as a process: one chunk of the body per step.               *)
(***************************************************************************)
VARIABLES
    body_lines,    \* the lines the server sent (kept to state the claims)
    body_term,     \* whether the body's last line is terminated
    wire,          \* the bytes of the body not yet delivered
    cut_in_char,   \* a chunk boundary fell between the bytes of a character
    sr,            \* __stream_response's locals: buffer, stream_text, exc
    sr_pc,         \* "iter" | "done"
    sr_result      \* the value returned

svars == <<body_lines, body_term, wire, cut_in_char, sr, sr_pc, sr_result>>

vars == <<mvars, svars>>

\* A client on which nothing has been called yet.
ClientInit(who, dir, format, agent, instruction) ==
    /\ caller = who
    /\ save_to = dir
    /\ save_as = format
    /\ user_input = None
    /\ history = None
    /\ task_id = None
    /\ current_agent = agent
    /\ current_instruction = instruction
    /\ pc = "idle"
    /\ cur = None
    /\ aliased = FALSE
    /\ call = None
    /\ uploads = <<>>
    /\ ret = None
    /\ outcome = "none"
    /\ disk = [n \in 1..MaxTurns |-> NoFile]
    /\ next_task = 1
    /\ turns = 0

\* No response is being decoded.
DecoderIdle ==
    /\ body_lines = <<>>
    /\ body_term = TRUE
    /\ wire = <<>>
    /\ cut_in_char = FALSE
    /\ sr = StreamStart
    /\ sr_pc = "done"
    /\ sr_result = None

StreamInit ==
    /\ ClientInit("library", None, None, "default", None)
    /\ body_lines \in Bodies
    /\ body_term \in BOOLEAN
    /\ wire = Utf8Encode(BodyText(body_lines, body_term))
    /\ cut_in_char = FALSE
    /\ sr = StreamStart
    /\ sr_pc = "iter"
    /\ sr_result = None

\* The transport hands over the next chunk: any number of the pending bytes.
IterContent ==
    /\ sr_pc = "iter"
    /\ wire # <<>>
    /\ \E n \in 1..Len(wire) :
          LET st == IterChunk(sr, SubSeq(wire, 1, n)) IN
          /\ wire' = Drop(wire, n)
          /\ cut_in_char' = (cut_in_char \/ wire[n] = "C3")
          /\ sr' = st
          /\ sr_pc' = IF st.exc THEN "done" ELSE "iter"
          /\ sr_result' = None
    /\ UNCHANGED <<body_lines, body_term>>
    /\ UNCHANGED mvars

\* The body is exhausted: the remaining buffer is parsed and the text returned.
StreamEnd ==
    /\ sr_pc = "iter"
    /\ wire = <<>>
    /\ LET f == StreamFinish(sr) IN
          /\ sr' = [sr EXCEPT !.stream_text = f.stream_text,
                              !.exc = (f.result = None)]
          /\ sr_result' = f.result
    /\ sr_pc' = "done"
    /\ UNCHANGED <<body_lines, body_term, wire, cut_in_char>>
    /\ UNCHANGED mvars

StreamNext == IterContent \/ StreamEnd

SpecStream == StreamInit /\ [][StreamNext]_vars

(***************************************************************************)
(* get_completions.  A call runs up to the point where the chat request is *)
(* posted (GcBegin); the pending request then ends with a response that is *)
(* decoded and saved (Respond), with a transport error (RequestFails) or   *)
(* with a keyboard interrupt (Interrupt).                                  *)
(***************************************************************************)
\* What callers pass.
Prompts == {Str(""), Str("hi")}

ImageInputs ==
    {None, Str("a.png"), List(<<"b.png", "a.png">>),
     List(<<"a.png", "bad.png", "b.png">>)}

\* What parse_image_command makes of the /image lines typed: one path, or
\* a list of paths.
ChatImageInputs ==
    {Str("a.png"), List(<<"a.png", "bad.png", "b.png">>)}

AgentNames == {"default", "custom", "nosuch"}

Instructions == {None, Str("x")}

\* The calls a program makes: every agent and instruction with a plain
\* prompt, and every prompt and image input with the default agent.
Calls ==
    [prompt : {Str("hi")}, image_path : {None},
     agent : AgentNames, instruction : Instructions]
    \cup [prompt : Prompts, image_path : ImageInputs,
          agent : {"default"}, instruction : {None}]

\* The response bodies of the chat endpoint, as the chunks delivered.
Replies ==
    {\* one content line in one chunk
     <<Utf8Encode(LineText([kind |-> "content", s |-> <<"a">>]) \o <<"\n">>)>>,
     \* a line whose payload is a number
     <<Utf8Encode(LineText([kind |-> "scalar", s |-> <<>>]) \o <<"\n">>)>>}

\* __stream_response(response) on a whole body.
ResponseText(chunks) ==
    LET st == StreamResponse(chunks) IN
    IF st.exc THEN None ELSE StreamFinish(st).result

\* start_chat after `response, history = self.get_completions(...)`:
\* `if not task_id and history: task_id = history[0].get('id')`.
TaskIdAfter(returned) ==
    IF caller = "start_chat" /\ task_id = None /\ Truthy(returned)
    THEN returned.list[1].id
    ELSE task_id

\* get_completions returns (response, returned) and the caller keeps the
\* history returned.
Return(response, returned, how) ==
    /\ ret' = [response |-> response, history |-> returned]
    /\ history' = returned
    /\ task_id' = TaskIdAfter(returned)
    /\ outcome' = how
    /\ pc' = "idle"
    /\ cur' = None
    /\ aliased' = FALSE

\* history.append({... "role": "user", "content": message_content ...})
UserAppended(msgs, task, content) ==
    Append(msgs, Msg(task, "user", List(content)))

\* Lines 425-512: up to the posting of the chat request.
GcBegin(prompt, image_path, agent, instruction) ==
    LET s == StartOrContinue(history, agent, instruction, TaskId(next_task))
        c == MessageContent(prompt, image_path)
        inputs == [prompt |-> prompt, image_path |-> image_path,
                   agent |-> agent, instruction |-> instruction,
                   history |-> history, start |-> s.history,
                   reused |-> s.reused, disk |-> disk,
                   previous_input |-> user_input]
    IN  /\ pc = "idle"
        /\ turns < MaxTurns
        /\ turns' = turns + 1
        /\ call' = inputs
        /\ next_task' = IF ~s.exc /\ ~Truthy(history)
                        THEN next_task + 1 ELSE next_task
        /\ IF s.exc
           THEN \* __get_agent raised: except Exception: return None, history
                /\ Return(None, history, "agent_error")
                /\ uploads' = <<>>
           ELSE IF c.exc
           THEN \* __upload_image raised
                /\ Return(None, s.history, "upload_error")
                /\ uploads' = c.tried
           ELSE LET task == s.history.list[1].id
                    appended == List(UserAppended(s.history.list, task,
                                                  c.content))
                IN  /\ cur' = appended
                    /\ aliased' = s.reused
                    \* list.append changes the caller's list when it is
                    \* the one the turn goes on with
                    /\ history' = IF s.reused THEN appended ELSE history
                    /\ uploads' = c.tried
                    /\ pc' = "pending"
                    /\ outcome' = "pending"
                    /\ ret' = None
                    /\ UNCHANGED task_id
        /\ UNCHANGED <<caller, save_to, save_as, current_agent,
                       current_instruction, disk>>
        /\ UNCHANGED svars

\* A program that calls get_completions, each call with the history the
\* previous call returned.
Call ==
    /\ caller = "library"
    /\ UNCHANGED user_input
    /\ \E c \in Calls :
          GcBegin(c.prompt, c.image_path, c.agent, c.instruction)

\* The response arrives with a 2xx status: lines 514-526.
Respond ==
    /\ pc = "pending"
    /\ \E chunks \in Replies,
          convert_ok \in (IF save_to # None /\ save_as # Str("json")
                          THEN BOOLEAN ELSE {TRUE}) :
          \E response_text \in {ResponseText(chunks)} :
          LET task == cur.list[1].id
              after == Append(cur.list, Msg(task, "assistant", response_text))
              saved == SaveHistory(after, disk[task.task], save_to, save_as,
                                   convert_ok)
          IN  /\ disk' = [disk EXCEPT ![task.task] = saved.file]
              /\ IF saved.exc
                 THEN Return(None, List(after), "save_error")
                 ELSE Return(response_text, List(after), "ok")
    /\ UNCHANGED <<caller, user_input, save_to, save_as, current_agent,
                   current_instruction, call, uploads, next_task, turns>>
    /\ UNCHANGED svars

\* requests.post raises (connection error, timeout) or raise_for_status
\* does: except Exception: return None, history.
RequestFails ==
    /\ pc = "pending"
    /\ Return(None, cur, "request_error")
    /\ UNCHANGED <<caller, user_input, save_to, save_as, current_agent,
                   current_instruction, call, uploads, disk, next_task,
                   turns>>
    /\ UNCHANGED svars

\* An interrupt whose handler writes the history of the pending turn.
InterruptPersists ==
    /\ pc = "pending"
    /\ pc' = "interrupted"
    /\ outcome' = "interrupted"
    /\ disk' = [disk EXCEPT ![cur.list[1].id.task] = JsonDump(cur.list)]
    /\ UNCHANGED <<caller, user_input, save_to, save_as, history, task_id,
                   current_agent, current_instruction, cur, aliased, call,
                   uploads, ret, next_task, turns>>
    /\ UNCHANGED svars

\* KeyboardInterrupt while the request is pending.  It is no Exception:
\* get_completions does not catch it, start_chat's handler ends the loop.
Interrupt ==
    /\ pc = "pending"
    /\ pc' = "interrupted"
    /\ outcome' = "interrupted"
    /\ UNCHANGED <<caller, user_input, save_to, save_as, history, task_id,
                   current_agent, current_instruction, cur, aliased, call,
                   uploads, ret, disk, next_task, turns>>
    /\ UNCHANGED svars

(***************************************************************************)
(* start_chat: the commands of the interactive loop.                       *)
(***************************************************************************)
AtPrompt == caller = "start_chat" /\ pc = "idle"

\* Anything that is no command: a regular message (never empty).
ChatMessage ==
    /\ caller = "start_chat"
    /\ \E prompt \in Prompts :
          /\ Truthy(prompt)
          /\ user_input' = prompt
          /\ GcBegin(prompt, None, current_agent, current_instruction)

\* /image <path or list> "<question>"
ChatImage ==
    /\ caller = "start_chat"
    /\ \E image_path \in ChatImageInputs :
          /\ Truthy(image_path)
          /\ user_input' = Str("/image")
          /\ GcBegin(Str("hi"), image_path, current_agent,
                     current_instruction)

\* /reset
CmdReset ==
    /\ AtPrompt
    /\ history' = None
    /\ task_id' = None
    /\ user_input' = Str("/reset")
    /\ UNCHANGED <<caller, save_to, save_as, current_agent,
                   current_instruction, pc, cur, aliased, call, uploads, ret,
                   outcome, disk, next_task, turns>>
    /\ UNCHANGED svars

\* /agent "<name>" with name default or custom
CmdAgent ==
    /\ AtPrompt
    /\ \E new_agent \in {"default", "custom"} :
          /\ current_agent' = new_agent
          /\ user_input' = [cmd |-> "/agent", name |-> new_agent]
    /\ UNCHANGED <<caller, save_to, save_as, history, task_id,
                   current_instruction, pc, cur, aliased, call, uploads, ret,
                   outcome, disk, next_task, turns>>
    /\ UNCHANGED svars

\* /instruction "<text>"
CmdInstruction ==
    /\ AtPrompt
    /\ \E new_instruction \in {Str("x")} :
          /\ current_instruction' = new_instruction
          /\ current_agent' = "custom"
          /\ user_input' = Str("/instruction")
    /\ UNCHANGED <<caller, save_to, save_as, history, task_id, pc, cur,
                   aliased, call, uploads, ret, outcome, disk, next_task,
                   turns>>
    /\ UNCHANGED svars

\* /load "<path>" of a history file that loads
CmdLoad ==
    /\ AtPrompt
    /\ \E n \in DOMAIN disk :
          LET loaded == LoadHistory(disk[n]) IN
          /\ ~loaded.exc
          /\ history' = loaded.history
          /\ task_id' = loaded.history.list[1].id
          /\ current_agent' =
                IF loaded.history.list[1].content
                      = GetAgent("custom", current_instruction).prompt
                THEN "custom" ELSE "default"
    /\ user_input' = Str("/load")
    /\ UNCHANGED <<caller, save_to, save_as, current_instruction,
                   pc, cur, aliased, call, uploads, ret, outcome, disk,
                   next_task, turns>>
    /\ UNCHANGED svars

\* A program about to make its first call with any configuration, or
\* start_chat() at its first prompt.
Init ==
    /\ \E who \in {"library", "start_chat"},
          config \in {<<None, None>>, <<Str("outputs"), Str("json")>>,
                      <<Str("outputs"), Str("md")>>} :
          /\ who = "start_chat" => config[2] = Str("json")
          /\ ClientInit(who, config[1], config[2], "default", None)
    /\ DecoderIdle

Next ==
    \/ Call
    \/ ChatMessage
    \/ ChatImage
    \/ Respond
    \/ RequestFails
    \/ Interrupt
    \/ CmdReset
    \/ CmdAgent
    \/ CmdInstruction
    \/ CmdLoad

Spec == Init /\ [][Next]_vars


(***************************************************************************)
(* __save_history on its own: a history in memory, any file at the path of *)
(* its task id, and the save applied to them time and again.               *)
(***************************************************************************)
MaxMsgs == 3

MaxSaves == 2

\* The messages of task 1 that histories and files are made of.
SaveMessages ==
    {Msg(TaskId(1), "user", List(<<TextPart(Str("hi"))>>)),
     Msg(TaskId(1), "assistant", Str(<<"a">>))}

SaveSystem == Msg(TaskId(1), "system", GetAgent("default", None).prompt)

\* The histories get_completions hands to __save_history: the system
\* message, then messages.
SaveHistories ==
    {List(<<SaveSystem>> \o m) :
        m \in UNION {[1..n -> SaveMessages] : n \in 0..(MaxMsgs - 1)}}

\* What may lie at the path: nothing, a file that is no JSON, or an array
\* of messages.
SaveFiles ==
    {NoFile, Corrupt}
    \cup {JsonDump(m) :
            m \in UNION {[1..n -> SaveMessages \cup {SaveSystem}] :
                            n \in 0..MaxMsgs}}

SaveInit ==
    /\ caller = "library"
    /\ save_to = Str("outputs")
    /\ save_as \in {Str("json"), Str("md")}
    /\ user_input = None
    /\ history \in SaveHistories
    /\ \E f \in SaveFiles :
          disk = [n \in 1..MaxTurns |-> IF n = 1 THEN f ELSE NoFile]
    /\ task_id = None
    /\ current_agent = "default"
    /\ current_instruction = None
    /\ pc = "idle"
    /\ cur = None
    /\ aliased = FALSE
    /\ call = None
    /\ uploads = <<>>
    /\ ret = None
    /\ outcome = "none"
    /\ next_task = 2
    /\ turns = 0
    /\ DecoderIdle

\* self.__save_history(history).  `call` keeps the file found by this save
\* (disk) and the one found by the first save (first).
Save ==
    /\ turns < MaxSaves
    /\ turns' = turns + 1
    /\ \E convert_ok \in (IF save_as # Str("json") THEN BOOLEAN ELSE {TRUE}) :
          LET task == history.list[1].id
              saved == SaveHistory(history.list, disk[task.task], save_to,
                                   save_as, convert_ok)
          IN  /\ disk' = [disk EXCEPT ![task.task] = saved.file]
              /\ outcome' = IF saved.exc THEN "save_error" ELSE "saved"
    /\ call' = [history |-> history, disk |-> disk,
                first |-> IF call = None THEN disk ELSE call.first]
    /\ UNCHANGED <<caller, user_input, save_to, save_as, history, task_id,
                   current_agent, current_instruction, pc, cur, aliased,
                   uploads, ret, next_task>>
    /\ UNCHANGED svars

SaveNext == Save

SpecSave == SaveInit /\ [][SaveNext]_vars


(***************************************************************************)
(* The claims about the stream decoder (under SpecStream).                 *)
(***************************************************************************)
\* Every line of the body is a `data: {"content": s}` line.
WellFormed(ls) == \A i \in 1..Len(ls) : ls[i].kind = "content"

\* C1 (as claimed): for a well-formed body, however it is cut into chunks,
\* the decoder returns exactly s_1 s_2 ... s_n.
C1_ReturnsConcatenation ==
    (sr_pc = "done" /\ WellFormed(body_lines))
        => sr_result = Str(ConcatContents(body_lines))

\* C2 (as claimed): for a body of content lines and lines whose payload is
\* not JSON, with at least one of the latter, the decoder returns a text (not
\* None), and the text accumulated is the concatenation of the content
\* lines' fragments: the undecodable lines add nothing, the others are kept
\* in order.
C2_MalformedLineSkipped ==
    (/\ sr_pc = "done"
     /\ \A i \in 1..Len(body_lines) : body_lines[i].kind \in {"content", "bad"}
     /\ \E i \in 1..Len(body_lines) : body_lines[i].kind = "bad")
        => /\ sr_result # None
           /\ sr.stream_text = ConcatContents(body_lines)

\* What the decoder does do with such bodies when no chunk boundary falls
\* inside a character (not a claim: the behaviour C1 and C2 describe, less
\* the two ways they fail).
DecoderWhenChunksDecode ==
    (/\ sr_pc = "done"
     /\ ~cut_in_char
     /\ \A i \in 1..Len(body_lines) : body_lines[i].kind # "scalar")
        => /\ sr_result = Str(StripQuotes(ConcatContents(body_lines)))
           /\ sr.stream_text = ConcatContents(body_lines)


(***************************************************************************)
(* The claims about get_completions and start_chat (under Spec).           *)
(***************************************************************************)
\* The system prompt the last call rendered (lines 430-433, 436-437).
Rendered ==
    LET agent == IF Truthy(call.instruction) THEN "custom" ELSE call.agent
    IN  GetAgent(agent, IF agent = "custom" THEN call.instruction ELSE None)

\* The last call got as far as choosing the history of its turn.
Started == call # None /\ ~Rendered.exc

\* The last call was given a history whose system message is not the
\* prompt rendered.
AgentChanged ==
    /\ Started
    /\ Truthy(call.history)
    /\ call.history.list[1].content # Rendered.prompt

\* The last call was given a history whose system message is the prompt
\* rendered.
AgentUnchanged ==
    /\ Started
    /\ Truthy(call.history)
    /\ call.history.list[1].content = Rendered.prompt

IsSystem(m) == m.role = "system"

IsAssistant(m) == m.role = "assistant"

\* C3: a call with a history and a changed system prompt goes on with a new
\* list: one system message, first, holding the prompt rendered and the
\* task id of the history given, then the user and assistant messages of
\* the history given, in order; a task id is drawn only when no history
\* was given.
C3_AgentChangeRebuilds ==
    /\ AgentChanged =>
          /\ ~call.reused
          /\ call.start.list[1]
                = Msg(call.history.list[1].id, "system", Rendered.prompt)
          /\ Len(SelectSeq(call.start.list, IsSystem)) = 1
          /\ Tail(call.start.list) = SelectSeq(call.history.list, IsTurn)
    /\ (Started /\ Truthy(call.history)) =>
          call.start.list[1].id = call.history.list[1].id
    /\ (Started /\ ~Truthy(call.history)) =>
          /\ call.start.list[1].id = TaskId(next_task - 1)
          /\ \A n \in DOMAIN call.disk :
                call.disk[n] # NoFile => n < next_task - 1

\* C3 witness: a pending turn that changed the agent of a history with a
\* user and an assistant message.
C3_Witness ==
    /\ AgentChanged
    /\ pc = "pending"
    /\ Len(call.history.list) >= 3
    /\ Len(call.start.list) = Len(call.history.list)

\* C4: a call with a history whose system message is the prompt rendered
\* goes on with the list given: the same object, hence the same messages,
\* system message and task id, and only then appends the user message.
C4_SameAgentReuses ==
    AgentUnchanged =>
        /\ call.reused
        /\ call.start = call.history
        /\ pc = "pending" =>
              /\ aliased
              /\ SubSeq(cur.list, 1, Len(call.history.list))
                    = call.history.list
              /\ Len(cur.list) = Len(call.history.list) + 1

\* C4 witness: a pending turn on the history of an earlier turn.
C4_Witness ==
    /\ AgentUnchanged
    /\ pc = "pending"
    /\ Len(call.history.list) >= 3

\* C5: in every history get_completions returns, the first message is the
\* system message and every message carries the first one's task id.
C5_OneSystemFirstOneTask ==
    (ret # None /\ Truthy(ret.history)) =>
        /\ ret.history.list[1].role = "system"
        /\ \A i \in 1..Len(ret.history.list) :
              ret.history.list[i].id = ret.history.list[1].id

\* C5 witness: the history returned by a turn that changed the agent,
\* after a turn that failed.
C5_Witness ==
    /\ ret # None
    /\ outcome = "ok"
    /\ AgentChanged
    /\ Len(call.history.list) = 2
    /\ Len(ret.history.list) = 4

\* C6 (as claimed): after a turn whose save completed, loading the file of
\* the history's task id yields the history.
C6_SaveThenLoadIsHistory ==
    (outcome = "ok" /\ save_to # None) =>
        LoadHistory(disk[ret.history.list[1].id.task])
            = [exc |-> FALSE, history |-> ret.history]

\* C8 (as claimed): a turn whose request fails, or whose response the
\* decoder fails on, returns no response and the history the caller gave,
\* without a message of the failed turn.
C8_FailedTurnReturnsHistoryGiven ==
    (outcome = "request_error" \/ (outcome = "ok" /\ ret.response = None))
        => /\ ret.response = None
           /\ ret.history = call.history

\* What does hold of a failed request: no response, and the history of the
\* turn with its user message (not a claim).
FailedRequestKeepsUserMessage ==
    outcome = "request_error" =>
        /\ ret.response = None
        /\ ret.history.list
              = Append(call.start.list,
                       Msg(call.start.list[1].id, "user",
                           List(MessageContent(call.prompt,
                                               call.image_path).content)))

Assistants(h) == IF Truthy(h) THEN SelectSeq(h.list, IsAssistant) ELSE <<>>

\* C9: after a keyboard interrupt of a pending request the history holds
\* no assistant message of the interrupted turn (neither the caller's list
\* nor the one the turn was working on), and the history files are the
\* ones from before the turn: none created, none modified.
C9_InterruptAddsNothing ==
    pc = "interrupted" =>
        /\ Assistants(history) = Assistants(call.history)
        /\ Assistants(cur) = Assistants(call.history)
        /\ cur.list[Len(cur.list)].role = "user"
        /\ history \in {call.history, cur}
        /\ disk = call.disk

\* C9 witness: start_chat interrupted in its second turn, with saving on
\* and the file of the first turn on disk.
C9_Witness ==
    /\ pc = "interrupted"
    /\ caller = "start_chat"
    /\ save_to # None
    /\ Truthy(call.history)
    /\ disk[call.history.list[1].id.task] # NoFile

\* C10 (as claimed): a call with an empty prompt and no image appends no
\* user message and sends no request.
C10_EmptyInputRejected ==
    (Started /\ ~Truthy(call.prompt) /\ ~Truthy(call.image_path)) =>
        /\ pc # "pending"
        /\ outcome \notin {"pending", "ok", "save_error", "request_error",
                           "interrupted"}

(***************************************************************************)
(* The claims about __save_history (under SpecSave).                       *)
(***************************************************************************)
\* The array the first save found, if the file held one.
FirstFound == JsonLoad(call.first[1]).msgs

\* The first save found an array that is a proper prefix of the history.
FoundPrefix ==
    /\ call # None
    /\ call.first[1] \notin {NoFile, Corrupt}
    /\ Len(FirstFound) < Len(history.list)
    /\ SubSeq(history.list, 1, Len(FirstFound)) = FirstFound

\* C7: when the file holds the first N messages of a history of N+k
\* messages (k >= 1), the save writes N+k messages, the N of the file and
\* then the last k of the history; a second save of the same history
\* leaves the file as the first wrote it.
C7_AppendMerge ==
    FoundPrefix =>
        /\ disk[1] = JsonDump(FirstFound
                                 \o Drop(history.list, Len(FirstFound)))
        /\ Len(JsonLoad(disk[1]).msgs) = Len(history.list)
        /\ JsonLoad(disk[1]).msgs = history.list
        /\ turns >= 2 => disk = call.disk

\* C7 witness: the second save of a history that is two messages longer
\* than the file was.
C7_Witness ==
    /\ FoundPrefix
    /\ turns = 2
    /\ Len(FirstFound) = 1
    /\ Len(history.list) = 3


(***************************************************************************)
(* The claims about the user message and the uploads (under Spec).         *)
(***************************************************************************)
\* The image paths of the last call, as a sequence.
PathsGiven ==
    IF ~Truthy(call.image_path) THEN <<>>
    ELSE IF "str" \in DOMAIN call.image_path THEN <<call.image_path.str>>
    ELSE call.image_path.list

\* The position of the first path whose upload fails (0: none fails).
FirstFailing ==
    IF \E i \in 1..Len(PathsGiven) : PathsGiven[i] \in Unreadable
    THEN CHOOSE i \in 1..Len(PathsGiven) :
            /\ PathsGiven[i] \in Unreadable
            /\ \A j \in 1..(i - 1) : PathsGiven[j] \notin Unreadable
    ELSE 0

\* C11: the user message of a turn has, as content, the text part first if
\* and only if the prompt is not empty, then one image part per path given,
\* in the order given, each with the URL the upload of that path returned;
\* the uploads made are one per path, in that order, and they are made
\* when the message is appended.
C11_UserMessageContent ==
    pc \in {"pending", "interrupted"} =>
        /\ uploads = PathsGiven
        /\ cur.list[Len(cur.list)]
              = Msg(call.start.list[1].id, "user",
                    List((IF call.prompt.str # ""
                          THEN <<[type |-> "text", text |-> call.prompt.str]>>
                          ELSE <<>>)
                         \o [i \in 1..Len(PathsGiven) |->
                               [type |-> "image_url",
                                file_url |->
                                   [url |-> UploadImage(PathsGiven[i]).url]]]))
        /\ Len(cur.list) = Len(call.start.list) + 1

\* C11 witness: a pending turn with a prompt and two images.
C11_Witness ==
    /\ pc = "pending"
    /\ call.prompt = Str("hi")
    /\ Len(PathsGiven) = 2
    /\ PathsGiven[1] # PathsGiven[2]

\* C12: when an upload fails the turn ends there: the uploads tried are the
\* paths up to the failing one, the history returned is the one the turn
\* started from, without a user message, no request is pending, the
\* history files are untouched and the response is None.
C12_UploadFailureAborts ==
    (call # None /\ FirstFailing > 0 /\ Started) =>
        /\ outcome = "upload_error"
        /\ pc = "idle"
        /\ uploads = SubSeq(PathsGiven, 1, FirstFailing)
        /\ ret.response = None
        /\ ret.history = call.start
        /\ disk = call.disk

\* C12 witness: a failed upload between two good paths, in a second turn
\* with saving on.
C12_Witness ==
    /\ outcome = "upload_error"
    /\ Len(PathsGiven) = 3
    /\ FirstFailing = 2
    /\ Truthy(call.history)
    /\ save_to # None


C14_ConversionFailureKeepsJson ==
    outcome = "save_error" =>
        /\ save_as # Str("json")
        /\ disk[1] = SaveHistory(history.list, call.disk[1], save_to,
                                 Str("json"), TRUE).file
        /\ disk[1] \notin {NoFile, Corrupt}
        /\ Len(JsonLoad(disk[1]).msgs) = Len(history.list)
        /\ (call.first[1] \in {NoFile, Corrupt} \/ FoundPrefix)
              => JsonLoad(disk[1]).msgs = history.list

\* C14 witness: a failed conversion in the save of a history that is longer
\* than the file found.
C14_Witness ==
    /\ outcome = "save_error"
    /\ turns = 1
    /\ FoundPrefix
    /\ Len(FirstFound) = 2
    /\ Len(history.list) = 3

\* The array the last save found, and the one it left.
Found == JsonLoad(call.disk[1]).msgs

Left == JsonLoad(disk[1]).msgs

\* C17: after a save that completed and that found a decodable file, the
\* file holds as many messages as the in-memory history, and from the
\* length of the file found onwards it holds the in-memory messages.
C17_SavedLengthAndSuffix ==
    (call # None /\ outcome = "saved" /\ call.disk[1] \notin {NoFile, Corrupt})
        => /\ Len(Left) = Len(history.list)
           /\ \A i \in 1..Len(Left) :
                 i > Len(Found) => Left[i] = history.list[i]

\* C17 witness: a save that found a file longer than the history and
\* different from it.
C17_Witness ==
    /\ call # None
    /\ outcome = "saved"
    /\ turns = 1
    /\ call.disk[1] \notin {NoFile, Corrupt}
    /\ Len(Found) > Len(history.list)
    /\ Len(history.list) >= 2
    /\ Found[2] # history.list[2]


(***************************************************************************)
(* The claim about the decoder's final strip (under SpecStream).           *)
(***************************************************************************)
\* s less one leading double quote, if it starts with one, and less one
\* trailing double quote, if what is left ends with one.
StripOneQuoteEachEnd(s) ==
    LET t == IF s # <<>> /\ Head(s) = "\"" THEN Tail(s) ELSE s
    IN  IF t # <<>> /\ t[Len(t)] = "\"" THEN SubSeq(t, 1, Len(t) - 1) ELSE t

\* C15 (as claimed): the text the decoder returns is the accumulated text
\* less at most one double quote at each end.
C15_StripsOneQuoteEachEnd ==
    (sr_pc = "done" /\ sr_result # None)
        => sr_result = Str(StripOneQuoteEachEnd(sr.stream_text))

\* What the strip does (not a claim): every double quote at either end goes.
DecoderStripsAllQuotes ==
    (sr_pc = "done" /\ sr_result # None)
        => sr_result = Str(StripQuotes(sr.stream_text))


(***************************************************************************)
(* The claim about the /agent command of start_chat (under Spec).          *)
(***************************************************************************)
\* The last turn of start_chat was entered right after an /agent command
\* that was accepted.
TurnAfterAgentCommand ==
    /\ caller = "start_chat"
    /\ call # None
    /\ "cmd" \in DOMAIN call.previous_input
    /\ call.previous_input.cmd = "/agent"

\* C16 (as claimed): the turn that follows an accepted /agent command has,
\* as its system message, the template of the agent named (rendered with
\* the current instruction if it is the custom one), whatever commands
\* came before; the earlier user and assistant messages and the task id
\* are kept.
C16_AgentCommandTakesEffect ==
    TurnAfterAgentCommand =>
        LET name == call.previous_input.name IN
        /\ call.start.list[1].content
              = GetAgent(name, IF name = "custom" THEN call.instruction
                               ELSE None).prompt
        /\ Truthy(call.history) =>
              /\ call.start.list[1].id = call.history.list[1].id
              /\ Tail(call.start.list)
                    = SelectSeq(Tail(call.history.list), IsTurn)

\* What the turn does use (not a claim): the custom agent whenever an
\* instruction is set, the agent named otherwise.
AgentCommandUnlessInstruction ==
    TurnAfterAgentCommand =>
        call.start.list[1].content
            = (IF Truthy(call.instruction)
               THEN GetAgent("custom", call.instruction).prompt
               ELSE GetAgent(call.previous_input.name, None).prompt)

=============================================================================
